---- MODULE Spec2Model ----
(***************************************************************************)
(* Browser Agent API (src/api.py): the in-memory task registry             *)
(* tasks_store, the HTTP handlers that create, read, list and delete its   *)
(* records, and the background runner run_agent_task that drives one agent *)
(* invocation and writes its outcome into the record of its task.          *)
(*                                                                         *)
(* The process is one asyncio event loop: a handler body without an await  *)
(* runs without interleaving.  run_agent_task has one suspension point,    *)
(* `await agent.run()`.  The runner is modelled statement by statement     *)
(* before that point (RunnerStart is line 57, AgentCall is lines 60-61),   *)
(* which allows more interleavings than the event loop does: a request     *)
(* placed between the two has the effect of the same request placed during *)
(* the await.                                                              *)
(***************************************************************************)
EXTENDS Integers, Sequences, FiniteSets, TLC

\* ------------------------------------------------------------------ bounds
\* Number of identifiers uuid4 can hand out in one run of the model.
NumIds == 2
\* Largest reading of the wall clock.
MaxClock == 1

Ids == 1..NumIds
\* Path parameters of GET/DELETE: every identifier uuid4 may hand out, and
\* one that it never hands out.
PathIds == 0..NumIds

\* ------------------------------------------------------- Python values
\* Optional[T]: None is the empty tuple, a value x is <<x>>.
None == <<>>
Some(x) == <<x>>

\* A text is the sequence of its pieces: the literal parts of a format
\* string and the values put between them.
\* Request bodies of POST /tasks (TaskRequest, lines 36-38).  create_task
\* copies the two fields and branches on neither.
TaskRequests ==
    { [task |-> <<"say hello">>, description |-> Some(<<"note">>)] }

\* weeks_ahead: int = 3 (line 156).
DefaultWeeks == 3

\* Query parameters of POST /tasks/flight-search (lines 154-156); the second
\* leaves weeks_ahead out.
FlightQueries ==
    { [origin |-> "NYC", destination |-> "LAX", weeks_ahead |-> 2],
      [origin |-> "GRU", destination |-> "LIS", weeks_ahead |-> DefaultWeeks] }

\* The f-string of line 161.
FlightTask(q) ==
    << "Go to kayak.com and find the cheapest one-way flight from ",
       q.origin, " to ", q.destination, " in ", ToString(q.weeks_ahead),
       " weeks", "." >>

\* The f-string of line 165.
FlightDescription(q) ==
    << "Flight search from ", q.origin, " to ", q.destination >>

\* TaskRequest(task=..., description=...) (lines 163-166).
FlightRequest(q) ==
    [ task |-> FlightTask(q), description |-> Some(FlightDescription(q)) ]

\* The parameters of search_flight in the order of lines 154-157: TRUE for
\* a parameter with a default value.
SearchFlightDefaults == << FALSE, FALSE, TRUE, FALSE >>

\* Python compiles a def only when no parameter without a default follows
\* one with a default; otherwise loading the file raises SyntaxError.
DefAccepted(defaults) ==
    \A a, b \in DOMAIN defaults : (a < b /\ defaults[a]) => defaults[b]

\* Values agent.run() can return: `truthy` is bool(value), `str` is
\* str(value).
AgentResults ==
    { [truthy |-> FALSE, str |-> "None"],
      [truthy |-> FALSE, str |-> ""],
      [truthy |-> TRUE,  str |-> "history"] }

\* Exceptions (class Exception) the Agent constructor or agent.run() can
\* raise: `str` is str(e); Exception() has the empty text.
AgentErrors ==
    { [str |-> "boom"], [str |-> ""] }

Placeholder == "Task completed successfully"

\* -------------------------------------------------------------- state
VARIABLES
    tasks_store,   \* the registry: identifier -> record
    order,         \* insertion order of the keys of tasks_store
    pc,            \* position of the runner of each identifier
    calls,         \* number of calls of agent.run() made for each identifier
    deleted,       \* identifiers a DELETE has removed (history)
    clock,         \* the wall clock read by datetime.now()
    resp,          \* the response of the HTTP request served by the last step
    outcome        \* the agent outcome the runner handled in the last step

vars == <<tasks_store, order, pc, calls, deleted, clock, resp, outcome>>

\* Identifiers some POST /tasks has returned.
Issued == { i \in Ids : pc[i] # "unborn" }

\* `task_id in tasks_store` (lines 124, 142).
Contains(store, id) == id \in DOMAIN store

\* The record create_task stores (lines 100-109).
NewRecord(id, req, now) ==
    [ task_id      |-> id,
      task         |-> req.task,
      description  |-> req.description,
      status       |-> "pending",
      result       |-> None,
      error        |-> None,
      created_at   |-> now,
      completed_at |-> None ]

\* tasks_store[task_id] = record (line 100).
Insert(store, id, rec) ==
    [ k \in (DOMAIN store) \cup {id} |-> IF k = id THEN rec ELSE store[k] ]

\* Pop emptying the registry.
PopAll(store, id) == << >>

\* tasks_store.pop(task_id) (line 145): the registry without the key.
Pop(store, id) ==
    [ k \in (DOMAIN store) \ {id} |-> store[k] ]

\* A sequence without the element id.
Without(seq, id) == SelectSeq(seq, LAMBDA k : k # id)

\* No HTTP request was served in the step.
NoResponse == [ op |-> "none", code |-> 0 ]

\* No agent outcome was handled in the step.
NoOutcome == [ kind |-> "none" ]

\* agent.run() returned r to the runner of id (line 61).
Returned(id, r) == [ kind |-> "returned", id |-> id, value |-> r ]

\* The Agent constructor or agent.run() raised e in the runner of id
\* (lines 60-61).
Raised(id, e) == [ kind |-> "raised", id |-> id, value |-> e ]

Init ==
    /\ tasks_store = << >>
    /\ order = << >>
    /\ pc = [ i \in Ids |-> "unborn" ]
    /\ calls = [ i \in Ids |-> 0 ]
    /\ deleted = {}
    /\ clock = 0
    /\ resp = NoResponse
    /\ outcome = NoOutcome

\* Time passes.
Tick ==
    /\ clock < MaxClock
    /\ clock' = clock + 1
    /\ resp' = NoResponse
    /\ outcome' = NoOutcome
    /\ UNCHANGED <<tasks_store, order, pc, calls, deleted>>

\* Fresh handing out an identifier that was issued before.
FreshAny(id) == id \in Ids

\* str(uuid.uuid4()) (line 97): an identifier never issued before.  The
\* identifiers are interchangeable, so the least unissued one is taken.
Fresh(id) ==
    /\ id \in Ids \ Issued
    /\ \A j \in Ids \ Issued : id <= j

\* CreateTask running the first statement of the runner before it returns
\* its response, instead of queueing the runner.
CreateTaskInline(id, req) ==
    /\ Fresh(id)
    /\ tasks_store' =
          Insert(tasks_store, id,
                 [ NewRecord(id, req, clock) EXCEPT !.status = "running" ])
    /\ order' = Append(order, id)
    /\ pc' = [ pc EXCEPT ![id] = "started" ]
    /\ resp' = [ op |-> "create", code |-> 200, task_id |-> id,
                 status |-> "pending" ]
    /\ outcome' = NoOutcome
    /\ UNCHANGED <<calls, deleted, clock>>

\* The body of create_task up to add_task (lines 97-112).  add_task queues
\* the runner, which the framework starts after the response has been
\* returned.
StoreAndQueue(id, req) ==
    /\ Fresh(id)
    /\ tasks_store' = Insert(tasks_store, id, NewRecord(id, req, clock))
    /\ order' = Append(order, id)
    /\ pc' = [ pc EXCEPT ![id] = "scheduled" ]
    /\ outcome' = NoOutcome
    /\ UNCHANGED <<calls, deleted, clock>>

\* POST /tasks (lines 92-118).
CreateTask(id, req) ==
    /\ StoreAndQueue(id, req)
    /\ resp' = [ op |-> "create", code |-> 200, task_id |-> id,
                 status |-> "pending" ]

\* POST /tasks/flight-search (lines 152-168).  The def is compiled or not;
\* when it is, the body builds the request and returns what create_task
\* returns; when it is not, no handler exists, the request gets no response
\* and nothing is stored or queued.
SearchFlight(q) ==
    IF DefAccepted(SearchFlightDefaults)
    THEN \E id \in Ids :
            /\ StoreAndQueue(id, FlightRequest(q))
            /\ resp' = [ op |-> "flight-search", code |-> 200,
                         task_id |-> id, status |-> "pending", query |-> q ]
    ELSE /\ resp' = [ op |-> "flight-search", code |-> 0, query |-> q ]
         /\ outcome' = NoOutcome
         /\ UNCHANGED <<tasks_store, order, pc, calls, deleted, clock>>

\* Update writing the fields into every record of the registry.
UpdateAll(store, id, fields) ==
    [ k \in DOMAIN store |->
        [ f \in DOMAIN store[k] |->
            IF f \in DOMAIN fields THEN fields[f] ELSE store[k][f] ] ]

\* Update writing the fields into the record of the least key of the
\* registry, whatever identifier it is given.
UpdateFirstKey(store, id, fields) ==
    LET first == CHOOSE k \in DOMAIN store : \A j \in DOMAIN store : k <= j IN
    [ store EXCEPT ![first] =
        [ f \in DOMAIN store[first] |->
            IF f \in DOMAIN fields THEN fields[f] ELSE store[first][f] ] ]

\* dict.update(fields) on the record of id (lines 64, 72): the named
\* fields are overwritten, the others kept.
Update(store, id, fields) ==
    [ store EXCEPT ![id] =
        [ f \in DOMAIN store[id] |->
            IF f \in DOMAIN fields THEN fields[f] ELSE store[id][f] ] ]

\* SetRunning clearing the outcome fields as well.
SetRunningClearing(store, id) ==
    Update(store, id, [ status |-> "running", result |-> Some(""),
                        error |-> None ])

\* SetRunning writing a terminal status at the runner's first statement.
SetRunningTerminal(store, id) == Update(store, id, [ status |-> "failed" ])

\* tasks_store[task_id]["status"] = "running" (line 57).
SetRunning(store, id) == Update(store, id, [ status |-> "running" ])

\* CompletedFields storing str(result) whatever the result is.
CompletedFieldsNoPlaceholder(r, now) ==
    [ status       |-> "completed",
      result       |-> Some(r.str),
      completed_at |-> Some(now) ]

\* CompletedFields without the completion timestamp.
CompletedFieldsNoStamp(r, now) ==
    [ status       |-> "completed",
      result       |-> Some(IF r.truthy THEN r.str ELSE Placeholder) ]

\* The fields written on success (lines 64-68).
CompletedFields(r, now) ==
    [ status       |-> "completed",
      result       |-> Some(IF r.truthy THEN r.str ELSE Placeholder),
      completed_at |-> Some(now) ]

\* FailedFields stamping created_at too.
FailedFieldsRestamp(e, now) ==
    [ status       |-> "failed",
      error        |-> Some(e.str),
      created_at   |-> now,
      completed_at |-> Some(now) ]

\* FailedFields storing the error text under result as well.
FailedFieldsWithResult(e, now) ==
    [ status       |-> "failed",
      result       |-> Some(e.str),
      error        |-> Some(e.str),
      completed_at |-> Some(now) ]

\* The fields written on failure (lines 72-76).
FailedFields(e, now) ==
    [ status       |-> "failed",
      error        |-> Some(e.str),
      completed_at |-> Some(now) ]

\* tasks_store[task_id] on a missing key raises KeyError.
KeyError == [ str |-> "KeyError" ]

\* Except assigning a record under the key when the key is missing, instead
\* of raising KeyError.
ExceptAssign(id, e) ==
    /\ tasks_store' =
          IF Contains(tasks_store, id)
          THEN Update(tasks_store, id, FailedFields(e, clock))
          ELSE Insert(tasks_store, id, FailedFields(e, clock))
    /\ pc' = [ pc EXCEPT ![id] = "done" ]

\* The except clause (lines 70-76) entered with exception e.  Its own
\* tasks_store[task_id] raises KeyError when the record is gone, and that
\* error leaves run_agent_task.
Except(id, e) ==
    IF Contains(tasks_store, id)
    THEN /\ tasks_store' = Update(tasks_store, id, FailedFields(e, clock))
         /\ pc' = [ pc EXCEPT ![id] = "done" ]
    ELSE /\ pc' = [ pc EXCEPT ![id] = "escaped" ]
         /\ UNCHANGED tasks_store

\* The scheduler invokes the runner: line 57.
RunnerStart(id) ==
    /\ pc[id] = "scheduled"
    /\ IF Contains(tasks_store, id)
       THEN /\ tasks_store' = SetRunning(tasks_store, id)
            /\ pc' = [ pc EXCEPT ![id] = "started" ]
       ELSE Except(id, KeyError)
    /\ resp' = NoResponse
    /\ outcome' = NoOutcome
    /\ UNCHANGED <<order, calls, deleted, clock>>

\* Lines 60-61 up to the suspension: the Agent constructor raises, or the
\* agent is built, agent.run() is called and the runner awaits it.
AgentCall(id) ==
    /\ pc[id] = "started"
    /\ \/ /\ \E e \in AgentErrors :
                /\ Except(id, e)
                /\ outcome' = Raised(id, e)
          /\ UNCHANGED calls
       \/ /\ calls' = [ calls EXCEPT ![id] = @ + 1 ]
          /\ pc' = [ pc EXCEPT ![id] = "awaiting" ]
          /\ outcome' = NoOutcome
          /\ UNCHANGED tasks_store
    /\ resp' = NoResponse
    /\ UNCHANGED <<order, deleted, clock>>

\* agent.run() returns r: lines 64-68, and the except clause when line 64
\* finds no record.
AgentReturn(id, r) ==
    /\ pc[id] = "awaiting"
    /\ IF Contains(tasks_store, id)
       THEN /\ tasks_store' =
                   Update(tasks_store, id, CompletedFields(r, clock))
            /\ pc' = [ pc EXCEPT ![id] = "done" ]
       ELSE Except(id, KeyError)
    /\ resp' = NoResponse
    /\ outcome' = Returned(id, r)
    /\ UNCHANGED <<order, calls, deleted, clock>>

\* AgentRaise with an except clause that drops the error and writes nothing.
AgentRaiseDropped(id, e) ==
    /\ pc[id] = "awaiting"
    /\ pc' = [ pc EXCEPT ![id] = "done" ]
    /\ resp' = NoResponse
    /\ outcome' = Raised(id, e)
    /\ UNCHANGED <<tasks_store, order, calls, deleted, clock>>

\* AgentRaise calling agent.run() once more after an error.
AgentRaiseRetry(id, e) ==
    /\ pc[id] = "awaiting"
    /\ calls' = [ calls EXCEPT ![id] = @ + 1 ]
    /\ resp' = NoResponse
    /\ outcome' = Raised(id, e)
    /\ UNCHANGED <<tasks_store, order, pc, deleted, clock>>

\* agent.run() raises e: lines 70-76.
AgentRaise(id, e) ==
    /\ pc[id] = "awaiting"
    /\ Except(id, e)
    /\ resp' = NoResponse
    /\ outcome' = Raised(id, e)
    /\ UNCHANGED <<order, calls, deleted, clock>>

\* TaskStatus(**task_data) (lines 45-51, 128): the declared fields.
TaskStatus(rec) ==
    [ task_id      |-> rec.task_id,
      status       |-> rec.status,
      result       |-> rec.result,
      error        |-> rec.error,
      created_at   |-> rec.created_at,
      completed_at |-> rec.completed_at ]

\* HTTPException(status_code=404, detail="Task not found") (lines 125, 143).
NotFound(op, id) ==
    [ op |-> op, code |-> 404, task_id |-> id, detail |-> "Task not found" ]

\* GetTaskStatus without the membership test: tasks_store[task_id] raises
\* KeyError on a missing key and the framework answers 500.
GetTaskStatusUnchecked(id) ==
    /\ resp' = IF ~Contains(tasks_store, id)
               THEN [ op |-> "get", code |-> 500, task_id |-> id ]
               ELSE [ op |-> "get", code |-> 200, task_id |-> id,
                      body |-> TaskStatus(tasks_store[id]) ]
    /\ outcome' = NoOutcome
    /\ UNCHANGED <<tasks_store, order, pc, calls, deleted, clock>>

\* GET /tasks/{task_id} (lines 120-128).
GetTaskStatus(id) ==
    /\ resp' = IF ~Contains(tasks_store, id)
               THEN NotFound("get", id)
               ELSE [ op |-> "get", code |-> 200, task_id |-> id,
                      body |-> TaskStatus(tasks_store[id]) ]
    /\ outcome' = NoOutcome
    /\ UNCHANGED <<tasks_store, order, pc, calls, deleted, clock>>

\* ListTasks counting every task ever created.
ListTasksTotalIssued ==
    /\ resp' = [ op |-> "list", code |-> 200,
                 tasks |-> [ k \in 1..Len(order) |-> tasks_store[order[k]] ],
                 total |-> Cardinality(Issued) ]
    /\ outcome' = NoOutcome
    /\ UNCHANGED <<tasks_store, order, pc, calls, deleted, clock>>

\* GET /tasks (lines 130-136): the values in insertion order, and len().
ListTasks ==
    /\ resp' = [ op |-> "list", code |-> 200,
                 tasks |-> [ k \in 1..Len(order) |-> tasks_store[order[k]] ],
                 total |-> Cardinality(DOMAIN tasks_store) ]
    /\ outcome' = NoOutcome
    /\ UNCHANGED <<tasks_store, order, pc, calls, deleted, clock>>

\* DeleteTask reading the record with tasks_store[task_id] instead of
\* popping it.
DeleteTaskKeep(id) ==
    /\ resp' = IF ~Contains(tasks_store, id)
               THEN NotFound("delete", id)
               ELSE [ op |-> "delete", code |-> 200,
                      message |-> "Task deleted successfully",
                      task_id |-> id, task |-> tasks_store[id].task ]
    /\ outcome' = NoOutcome
    /\ UNCHANGED <<tasks_store, order, deleted, pc, calls, clock>>

\* DELETE /tasks/{task_id} (lines 138-150).
DeleteTask(id) ==
    /\ IF ~Contains(tasks_store, id)
       THEN /\ resp' = NotFound("delete", id)
            /\ UNCHANGED <<tasks_store, order, deleted>>
       ELSE /\ tasks_store' = Pop(tasks_store, id)
            /\ order' = Without(order, id)
            /\ deleted' = deleted \cup {id}
            /\ resp' = [ op |-> "delete", code |-> 200,
                         message |-> "Task deleted successfully",
                         task_id |-> id, task |-> tasks_store[id].task ]
    /\ outcome' = NoOutcome
    /\ UNCHANGED <<pc, calls, clock>>

Next ==
    \/ Tick
    \/ \E id \in Ids, req \in TaskRequests : CreateTask(id, req)
    \/ \E q \in FlightQueries : SearchFlight(q)
    \/ \E id \in Ids : RunnerStart(id)
    \/ \E id \in Ids : AgentCall(id)
    \/ \E id \in Ids, r \in AgentResults : AgentReturn(id, r)
    \/ \E id \in Ids, e \in AgentErrors : AgentRaise(id, e)
    \/ \E id \in PathIds : GetTaskStatus(id)
    \/ ListTasks
    \/ \E id \in PathIds : DeleteTask(id)

Spec == Init /\ [][Next]_vars

\* The runner of one task ends: agent.run() returns or raises.
AgentEnds(id) ==
    \/ \E r \in AgentResults : AgentReturn(id, r)
    \/ \E e \in AgentErrors : AgentRaise(id, e)

\* The event loop starts every queued runner and runs it up to its await;
\* every agent call returns or raises.  Requests are under no obligation.
FairSpec ==
    /\ Spec
    /\ \A id \in Ids :
          /\ WF_vars(RunnerStart(id))
          /\ WF_vars(AgentCall(id))
          /\ WF_vars(AgentEnds(id))

\* ================================================================ claims
Terminal(st) == st \in {"completed", "failed"}

\* The status changes run_agent_task may make to one record.
AllowedStep(a, b) ==
    \/ a = b
    \/ a = "pending" /\ b = "running"
    \/ a = "running" /\ Terminal(b)

\* C1: a record is created pending, and in every step the status of a record
\* stays or moves pending -> running, running -> completed or running ->
\* failed; a completed or failed record keeps its status.
C1_StatusOrder ==
    [][ \A i \in Ids :
          /\ (~Contains(tasks_store, i) /\ Contains(tasks_store', i))
                => tasks_store'[i].status = "pending"
          /\ (Contains(tasks_store, i) /\ Contains(tasks_store', i))
                => AllowedStep(tasks_store[i].status, tasks_store'[i].status)
      ]_vars

\* C1 witness: one record has reached completed and another failed.
C1_Witness ==
    \E i, j \in DOMAIN tasks_store :
        /\ tasks_store[i].status = "completed"
        /\ tasks_store[j].status = "failed"

\* C2: every completed or failed record has exactly one of result and error
\* set and a completed_at; every pending or running record has no
\* completed_at.
C2_TerminalFields ==
    \A i \in DOMAIN tasks_store :
        LET rec == tasks_store[i] IN
        IF Terminal(rec.status)
        THEN /\ (rec.result # None) # (rec.error # None)
             /\ rec.completed_at # None
        ELSE rec.completed_at = None

\* C2 witness: a completed record with its timestamp beside a running one.
C2_Witness ==
    \E i, j \in DOMAIN tasks_store :
        /\ tasks_store[i].status = "completed"
        /\ tasks_store[i].completed_at # None
        /\ tasks_store[j].status = "running"

\* What C3 asks of one record or one GET body.
ResultErrorMatchStatus(rec) ==
    /\ rec.result # None => rec.status = "completed"
    /\ rec.error # None => rec.status = "failed"

\* C3: result is set only in a completed record and error only in a failed
\* one, in the registry and in every body GET /tasks/{id} and GET /tasks
\* return; a pending or running body has neither.
C3_ResultOnlyCompleted ==
    /\ \A i \in DOMAIN tasks_store : ResultErrorMatchStatus(tasks_store[i])
    /\ (resp.op = "get" /\ resp.code = 200)
          => /\ ResultErrorMatchStatus(resp.body)
             /\ ~Terminal(resp.body.status)
                   => resp.body.result = None /\ resp.body.error = None
    /\ resp.op = "list"
          => \A k \in DOMAIN resp.tasks :
                /\ ResultErrorMatchStatus(resp.tasks[k])
                /\ ~Terminal(resp.tasks[k].status)
                      => /\ resp.tasks[k].result = None
                         /\ resp.tasks[k].error = None

\* C3 witness: GET returned a running record while a failed record with its
\* error is in the registry.
C3_Witness ==
    /\ resp.op = "get" /\ resp.code = 200
    /\ resp.body.status = "running"
    /\ \E i \in DOMAIN tasks_store : tasks_store[i].error # None

\* C4: an identifier a DELETE removed is in no later registry state, GET of
\* it yields 404 and no list contains it, whatever its runner does
\* afterwards.
C4_DeletedStaysGone ==
    /\ \A i \in deleted : ~Contains(tasks_store, i)
    /\ (resp.op = "get" /\ resp.task_id \in deleted) => resp.code = 404
    /\ resp.op = "list"
          => \A k \in DOMAIN resp.tasks : resp.tasks[k].task_id \notin deleted

\* C4 witness: GET of a deleted identifier after its runner, not yet
\* finished at the DELETE, has taken its remaining steps.
C4_Witness ==
    /\ resp.op = "get"
    /\ resp.task_id \in deleted
    /\ pc[resp.task_id] = "escaped"

\* C5: no error leaves run_agent_task.
C5_RunnerContained ==
    \A i \in Ids : pc[i] # "escaped"
\* The record of i is completed with a result or failed with an error.
TerminalWithOutcome(i) ==
    /\ Contains(tasks_store, i)
    /\ \/ tasks_store[i].status = "completed" /\ tasks_store[i].result # None
       \/ tasks_store[i].status = "failed" /\ tasks_store[i].error # None

\* C6 as stated: every created task eventually has a record that is
\* completed with a result or failed with an error.
C6_EventuallyTerminal ==
    \A i \in Ids : (i \in Issued) ~> TerminalWithOutcome(i)

\* C6 as amended: every created task eventually has a record that is
\* completed with a result or failed with an error, unless a DELETE removes
\* its record first.
C6_EventuallyTerminalOrDeleted ==
    \A i \in Ids : (i \in Issued) ~> (TerminalWithOutcome(i) \/ i \in deleted)

\* C6 witness: one task has failed with its error text stored, and the
\* record of another was deleted under its runner.
C6_Witness ==
    \E i, j \in Ids :
        /\ pc[i] = "done" /\ TerminalWithOutcome(i)
        /\ tasks_store[i].status = "failed"
        /\ j \in deleted /\ pc[j] = "escaped"

\* A POST returns an identifier no earlier POST returned.
DistinctIdentifiers ==
    [][ resp'.op = "create" => resp'.task_id \notin Issued ]_vars

\* A step of the runner of i leaves the record of every other identifier as
\* it is.
RunnerWritesOwnRecord ==
    [][ \A i \in Ids :
          (pc[i] # "unborn" /\ pc'[i] # pc[i])
             => \A j \in Ids \ {i} :
                   /\ Contains(tasks_store', j) = Contains(tasks_store, j)
                   /\ Contains(tasks_store, j)
                         => tasks_store'[j] = tasks_store[j]
      ]_vars

C8_UnknownIdNotFound ==
    (resp.op = "get" /\ resp.task_id \notin Issued) => resp.code = 404

\* C8 witness: GET of a never-issued identifier answered while the registry
\* holds a record.
C8_Witness ==
    /\ resp.op = "get"
    /\ resp.task_id \notin Issued
    /\ DOMAIN tasks_store # {}

\* C9: in the step in which POST /tasks returns {task_id, status: pending},
\* the stored record is pending with result, error and completed_at unset
\* and the runner of the task has taken no step.
C9_RunnerAfterResponse ==
    [][ \A i \in Ids :
          (pc[i] = "unborn" /\ pc'[i] # "unborn")
             => /\ resp' = [ op |-> "create", code |-> 200, task_id |-> i,
                             status |-> "pending" ]
                /\ pc'[i] = "scheduled"
                /\ calls'[i] = 0
                /\ Contains(tasks_store', i)
                /\ tasks_store'[i].status = "pending"
                /\ tasks_store'[i].result = None
                /\ tasks_store'[i].error = None
                /\ tasks_store'[i].completed_at = None
      ]_vars

\* C9 witness: a POST has just returned while the runner of an earlier task
\* awaits its agent.
C9_Witness ==
    /\ resp.op = "create"
    /\ pc[resp.task_id] = "scheduled"
    /\ \E j \in Ids : pc[j] = "awaiting"

\* C10 as stated: agent.run() is never called more than once for a task, and
\* has been called once when the runner of the task has ended.
C10_ExactlyOneCall ==
    \A i \in Ids :
        /\ calls[i] <= 1
        /\ pc[i] \in {"done", "escaped"} => calls[i] = 1

\* C10 as amended: agent.run() is never called more than once for a task; it
\* is called in the step in which the runner, having found its record at
\* line 57 and built the Agent without an error, reaches the await, and in no
\* other step.
C10_OneCallAtAwait ==
    /\ [](\A i \in Ids :
            /\ calls[i] <= 1
            /\ pc[i] = "awaiting" => calls[i] = 1
            /\ (Contains(tasks_store, i)
                  /\ tasks_store[i].status = "completed") => calls[i] = 1)
    /\ [][ \A i \in Ids :
             calls'[i] = IF pc[i] = "started" /\ pc'[i] = "awaiting"
                         THEN calls[i] + 1
                         ELSE calls[i] ]_vars

\* C10 witness: one runner has ended after its single call, another ended
\* without a call because its record was deleted before its first step.
C10_Witness ==
    \E i, j \in Ids :
        /\ pc[i] = "done" /\ calls[i] = 1
        /\ pc[j] = "escaped" /\ calls[j] = 0
\* C11 as stated: DELETE of an identifier in the registry removes the record
\* and its response carries every field of the removed record with the value
\* it had.
C11_DeleteReturnsRecord ==
    [][ \A i \in Ids :
          (Contains(tasks_store, i) /\ resp'.op = "delete"
              /\ resp'.task_id = i)
             => /\ ~Contains(tasks_store', i)
                /\ \A f \in DOMAIN tasks_store[i] :
                      f \in DOMAIN resp' /\ resp'[f] = tasks_store[i][f]
      ]_vars

\* C11 as amended: DELETE of an identifier in the registry removes the
\* record and its response carries the message, the identifier and the task
\* text the removed record had, and no other field of it.
C11_DeleteReturnsTask ==
    [][ \A i \in Ids :
          (Contains(tasks_store, i) /\ resp'.op = "delete"
              /\ resp'.task_id = i)
             => /\ ~Contains(tasks_store', i)
                /\ resp' = [ op |-> "delete", code |-> 200,
                             message |-> "Task deleted successfully",
                             task_id |-> i, task |-> tasks_store[i].task ]
      ]_vars

\* C11 witness: DELETE has just removed a record whose runner had finished.
C11_Witness ==
    /\ resp.op = "delete" /\ resp.code = 200
    /\ resp.task_id \in deleted
    /\ ~Contains(tasks_store, resp.task_id)
    /\ pc[resp.task_id] = "done"

\* C12: while the runner of a task awaits agent.run(), the record of the
\* task, if still in the registry, has status running with nothing else
\* set, whatever time has passed and whatever other runners and requests
\* have done.
C12_RunningWhileAwaiting ==
    \A i \in Ids :
        (pc[i] = "awaiting" /\ Contains(tasks_store, i))
           => /\ tasks_store[i].status = "running"
              /\ tasks_store[i].completed_at = None

\* C12 witness: the first task still awaits its agent and is running after
\* the clock has reached its last reading and the second task, created
\* later, has finished.
C12_Witness ==
    /\ pc[1] = "awaiting"
    /\ Contains(tasks_store, 1) /\ tasks_store[1].status = "running"
    /\ clock = MaxClock
    /\ pc[2] = "done"
\* The text contains the piece a followed by the piece b.
ContainsPair(text, a, b) ==
    \E k \in 1..(Len(text) - 1) : text[k] = a /\ text[k + 1] = b

\* The text contains the piece a.
ContainsPiece(text, a) == \E k \in 1..Len(text) : text[k] = a

\* C13: POST /tasks/flight-search with origin o, destination d and
\* weeks_ahead w is answered {task_id, status: pending}, and the record of
\* that task is new, pending, holds an instruction that contains o, d and
\* "w weeks", and has its runner queued.
C13_FlightSearchCreates ==
    [][ resp'.op = "flight-search"
          => /\ resp'.code = 200
             /\ resp'.status = "pending"
             /\ LET i == resp'.task_id
                    q == resp'.query IN
                /\ ~Contains(tasks_store, i)
                /\ Contains(tasks_store', i)
                /\ tasks_store'[i].status = "pending"
                /\ ContainsPiece(tasks_store'[i].task, q.origin)
                /\ ContainsPiece(tasks_store'[i].task, q.destination)
                /\ ContainsPair(tasks_store'[i].task,
                                ToString(q.weeks_ahead), " weeks")
                /\ pc[i] = "unborn" /\ pc'[i] = "scheduled"
      ]_vars
\* C14: when the runner has handled an agent outcome and its record is in
\* the registry, a returned value left the record completed with result
\* str(value), or the placeholder for a falsy value, and no error; a raised
\* error left it failed with error str(e) and no result.
C14_StatusMatchesOutcome ==
    (outcome.kind # "none" /\ Contains(tasks_store, outcome.id))
       => LET rec == tasks_store[outcome.id]
              v == outcome.value IN
          IF outcome.kind = "returned"
          THEN /\ rec.status = "completed"
               /\ rec.result = Some(IF v.truthy THEN v.str ELSE Placeholder)
               /\ rec.result # None
               /\ rec.error = None
          ELSE /\ rec.status = "failed"
               /\ rec.error = Some(v.str)
               /\ rec.result = None

\* C14 witness: agent.run() returned a falsy value and the record holds the
\* placeholder.
C14_Witness ==
    /\ outcome.kind = "returned"
    /\ ~outcome.value.truthy
    /\ Contains(tasks_store, outcome.id)
    /\ tasks_store[outcome.id].result = Some(Placeholder)

\* C15: the first step of a runner that finds its record changes the status
\* of that record from pending to running and nothing else in the registry;
\* one that finds no record changes nothing in the registry.
C15_FirstStepOnlyStatus ==
    [][ \A i \in Ids :
          (pc[i] = "scheduled" /\ pc'[i] # "scheduled")
             => IF Contains(tasks_store, i)
                THEN /\ tasks_store[i].status = "pending"
                     /\ tasks_store' =
                           [ tasks_store EXCEPT ![i].status = "running" ]
                ELSE tasks_store' = tasks_store
      ]_vars

\* C15 witness: a runner has taken its first step beside the terminal
\* record of another task.
C15_Witness ==
    \E i, j \in DOMAIN tasks_store :
        /\ pc[i] = "started" /\ tasks_store[i].status = "running"
        /\ i # j /\ Terminal(tasks_store[j].status)

\* C16: a record that is in the registry is still there after every step
\* except a DELETE of its identifier answered 200, under the same key and
\* with the same created_at; POST, GET and list steps leave it as it is.
C16_RemovedOnlyByDelete ==
    [][ \A i \in Ids :
          Contains(tasks_store, i)
             => IF Contains(tasks_store', i)
                THEN /\ tasks_store'[i].task_id = tasks_store[i].task_id
                     /\ tasks_store'[i].created_at = tasks_store[i].created_at
                     /\ resp'.op \in {"create", "flight-search", "get", "list"}
                           => tasks_store'[i] = tasks_store[i]
                ELSE /\ resp'.op = "delete" /\ resp'.code = 200
                     /\ resp'.task_id = i
      ]_vars

\* C16 witness: the record of the first task is in the registry after its
\* runner has finished, the second task was deleted and a list was served.
C16_Witness ==
    /\ resp.op = "list"
    /\ Contains(tasks_store, 1) /\ pc[1] = "done"
    /\ 2 \in deleted

\* C17: the tasks GET /tasks returns are the records of the registry, each
\* once, and total is their number.
C17_ListIsRegistry ==
    resp.op = "list"
       => /\ { resp.tasks[k] : k \in DOMAIN resp.tasks }
                = { tasks_store[i] : i \in DOMAIN tasks_store }
          /\ Len(resp.tasks) = Cardinality(DOMAIN tasks_store)
          /\ resp.total = Cardinality(DOMAIN tasks_store)

\* C17 witness: a list of one record, served after another record was
\* deleted and the runner of the listed one has finished.
C17_Witness ==
    /\ resp.op = "list" /\ resp.total = 1
    /\ deleted # {}
    /\ \E i \in DOMAIN tasks_store : pc[i] = "done"

\* C18: DELETE of an identifier that is not in the registry answers 404 and
\* leaves the registry as it is; DELETE of one that is in it removes that
\* entry and leaves every other record as it is.
C18_DeleteOnlyItsEntry ==
    [][ resp'.op = "delete"
          => LET i == resp'.task_id IN
             IF ~Contains(tasks_store, i)
             THEN resp'.code = 404 /\ tasks_store' = tasks_store
             ELSE /\ resp'.code = 200
                  /\ DOMAIN tasks_store' = (DOMAIN tasks_store) \ {i}
                  /\ \A j \in DOMAIN tasks_store' :
                        tasks_store'[j] = tasks_store[j]
      ]_vars

\* C18 witness: a DELETE answered 200 has left the record of another task
\* in the registry.
C18_Witness ==
    /\ resp.op = "delete" /\ resp.code = 200
    /\ DOMAIN tasks_store # {}

\* C19: the task_id of a record is the key it is stored under, and no step
\* changes the task_id, task, description or created_at of a record.
C19_IdentityFieldsFixed ==
    /\ [](\A i \in DOMAIN tasks_store : tasks_store[i].task_id = i)
    /\ [][ \A i \in Ids :
             (Contains(tasks_store, i) /\ Contains(tasks_store', i))
                => /\ tasks_store'[i].task_id = tasks_store[i].task_id
                   /\ tasks_store'[i].task = tasks_store[i].task
                   /\ tasks_store'[i].description = tasks_store[i].description
                   /\ tasks_store'[i].created_at = tasks_store[i].created_at
         ]_vars

\* C19 witness: a record created at time 0 has failed at a later time.
C19_Witness ==
    \E i \in DOMAIN tasks_store :
        /\ tasks_store[i].status = "failed"
        /\ tasks_store[i].created_at = 0
        /\ tasks_store[i].completed_at = Some(MaxClock)
====
